---- MODULE Spec2Model ----
(***************************************************************************)
(* Model of tools/optimizer/wasm.h: the arena allocator, the Var           *)
(* identifier, Literal, the Expression hierarchy with its printer,         *)
(* FunctionType equality and Module::print.                                *)
(*                                                                         *)
(* Text written to a std::ostream is a sequence of lexemes (strings); the  *)
(* concatenation of the lexemes is the text.  "(" , ")" , "\n" and the     *)
(* two-blank indentation unit "  " are lexemes of their own, so that       *)
(* "(block" is the two lexemes "(" and "block".                            *)
(***************************************************************************)
EXTENDS Integers, Sequences, FiniteSets, TLC

VARIABLES
  \* Arena
  chunks,       \* Arena::chunks, a sequence of chunk identities (one per new char[CHUNK])
  index,        \* Arena::index
  objs,         \* the objects returned since the last clear: [chunk, off, size]
  nextChunk,    \* identity the next new char[CHUNK] gets
  allocs,       \* number of alloc calls made (bounds the model)
  lastAlloc,    \* the last Arena operation: [res, size]
  \* Var
  lastVar,      \* the last Var construction: [res, ctor, arg]
  \* FunctionType
  fa, fb,       \* two FunctionType objects
  cmp,          \* the results of a == b, b == a, a == a and a != b, once evaluated
  \* Expression printing
  traps,        \* the build: TRUE when flowing off the end of a non-void function traps
  root,         \* the expression tree under construction
  out,          \* what print wrote to the stream
  pc,           \* "build" or "printed"
  \* Module
  functionTypes, imports, exports, functions,
  importLog,    \* the names of the imports in the order they were added (history)
  table,        \* Table::vars, a sequence of Vars
  mout,         \* what Module::print wrote to the stream
  mpc           \* "build" or "printed"

arenaVars == <<chunks, index, objs, nextChunk, allocs, lastAlloc>>
ftVars == <<fa, fb, cmp>>
printVars == <<root, out, pc>>
moduleVars == <<functionTypes, imports, exports, table, functions, importLog, mout, mpc>>
vars == <<arenaVars, lastVar, ftVars, traps, printVars, moduleVars>>

----------------------------------------------------------------------------
\* Bounds of the model
MaxAllocs == 4
MaxVars == 3
MaxParams == 2
MaxDepth == 2
MaxDecls == 6

----------------------------------------------------------------------------
\* Arena

CHUNK == 10000

\* sizeof(T) of the types a caller asks for
Sizes == {1, 8, 9, 4992, 5000, 9984, 9985, 9992, 9993, 10000, 10001}

\* values an uninitialised int Arena::index may hold
Garbage == {0, 8, 9992}

\* (sizeof(T) + 7) & (-8)
RoundUp8(n) == ((n + 7) \div 8) * 8

\* the assertion with the bound included
AllocAcceptsLoose(currSize) == currSize <= CHUNK

\* assert(currSize < CHUNK)
AllocAccepts(currSize) == currSize < CHUNK

\* the test for a new chunk with the size of the object left out
NeedsChunkNoSize(currSize) == Len(chunks) = 0 \/ index >= CHUNK

\* chunks.size() == 0 || index + currSize >= CHUNK
NeedsChunk(currSize) == Len(chunks) = 0 \/ index + currSize >= CHUNK

ArenaInit ==
  /\ chunks = <<>>
  /\ index \in Garbage
  /\ objs = <<>>
  /\ nextChunk = 1
  /\ allocs = 0
  /\ lastAlloc = [res |-> "none", size |-> 0]

\* Arena::alloc<T>() with sizeof(T) = size, the assertion holding
AllocOk(size) ==
  LET currSize == RoundUp8(size)
      fresh == NeedsChunk(currSize)
      chunks1 == IF fresh THEN Append(chunks, nextChunk) ELSE chunks
      index1 == IF fresh THEN 0 ELSE index
  IN /\ allocs < MaxAllocs
     /\ AllocAccepts(currSize)
     /\ chunks' = chunks1
     /\ nextChunk' = IF fresh THEN nextChunk + 1 ELSE nextChunk
     /\ objs' = Append(objs, [chunk |-> chunks1[Len(chunks1)], off |-> index1, size |-> currSize])
     /\ index' = index1 + currSize
     /\ allocs' = allocs + 1
     /\ lastAlloc' = [res |-> "ok", size |-> size]

\* Arena::alloc<T>() with sizeof(T) = size, the assertion failing: the
\* process is aborted before any member is touched
AllocRejected(size) ==
  /\ allocs < MaxAllocs
  /\ ~AllocAccepts(RoundUp8(size))
  /\ lastAlloc' = [res |-> "assert", size |-> size]
  /\ allocs' = allocs + 1
  /\ UNCHANGED <<chunks, index, objs, nextChunk>>

\* Arena::clear(): every chunk is deleted, index is left as it is
ArenaClear ==
  /\ lastAlloc.res # "assert"
  /\ chunks' = <<>>
  /\ objs' = <<>>
  /\ lastAlloc' = [res |-> "cleared", size |-> 0]
  /\ UNCHANGED <<index, nextChunk, allocs>>

\* a failed assertion aborts the process: nothing runs after it
Alloc == \E size \in Sizes : lastAlloc.res # "assert" /\ AllocOk(size)
AllocFail == \E size \in Sizes : lastAlloc.res # "assert" /\ AllocRejected(size)

----------------------------------------------------------------------------
\* What a piece of code writes to the stream is a fragment [text, st]: the
\* lexemes it wrote, and "ok" when control left it normally, "abort" when it
\* called abort(), "trap" when control flowed off the end of a non-void
\* function in a build that traps there, "noprint" when the class of the
\* node declares no print.  Code that runs one piece after the other writes
\* the pieces' texts up to the first piece that did not leave normally.

Ok(toks) == [text |-> toks, st |-> "ok"]

\* abort()
Abort == [text |-> <<>>, st |-> "abort"]

RECURSIVE CatFrom(_, _)
CatFrom(parts, i) ==
  IF i > Len(parts) THEN Ok(<<>>)
  ELSE IF parts[i].st # "ok" THEN parts[i]
  ELSE LET rest == CatFrom(parts, i + 1)
       IN [text |-> parts[i].text \o rest.text, st |-> rest.st]

\* the pieces of parts run in sequence
Cat(parts) == CatFrom(parts, 1)

\* the closing brace of a non-void function reached without a return
\* statement: undefined behaviour, the build decides
MissingReturn(r) == IF r.st = "ok" /\ traps THEN [r EXCEPT !.st = "trap"] ELSE r

\* doIndent(o, indent)
DoIndent(indent) == Ok([i \in 1..indent |-> "  "])

\* incIndent(o, indent); the caller continues with indent + 1
IncIndent == Ok(<<"\n">>)

\* decIndent(o, indent) called with the raised indent: indent--, doIndent, ')'
DecIndent(indent) == Cat(<<DoIndent(indent - 1), Ok(<<")">>)>>)

----------------------------------------------------------------------------
\* Var.  num is the storage cell of the union read as unsigned; str is the
\* name when the cell was written through the Name member; by records the
\* constructor that built the value (history, not program state).

MAX_NUM == 1000000

\* arguments of Var(unsigned); the largest stands for the values above it,
\* which the comparisons with MAX_NUM treat alike
Nums == {0, 1, 2, 999999, 1000000, 1000001, 2147483647}

Names == {"a", "b", "c"}

\* what the cell of a Var built from a Name reads as through num: the bits
\* of the interned string's address, which the program does not choose
NameBits == {0, 4096, 999999, 1000000, 1000001, 2000000000}

\* Var()
VarDefault == [num |-> 0, str |-> "", by |-> "default"]

\* Var(unsigned num): assert(num > 0 && num < MAX_NUM)
VarNumAccepts(n) == n > 0 /\ n < MAX_NUM
VarNum(n) == [num |-> n, str |-> "", by |-> "num"]

\* the assertion of Var(Name) with the threshold included
VarNameAcceptsLoose(bits) == bits >= MAX_NUM

\* Var(Name str): assert(num > MAX_NUM)
VarNameAccepts(bits) == bits > MAX_NUM
VarName(name, bits) == [num |-> bits, str |-> name, by |-> "name"]

\* is() testing for a name
VarIsNamed(v) == v.num > MAX_NUM

\* Var::is()
VarIs(v) == v.num # 0

\* Var::print(o)
VarPrint(v) == IF v.num < MAX_NUM THEN Ok(<<ToString(v.num)>>) ELSE Ok(<<v.str>>)

\* for (auto var : vars) { var.print(o) << ' '; }
TableLoop(vs) == Cat([i \in 1..Len(vs) |-> Cat(<<VarPrint(vs[i]), Ok(<<" ">>)>>)])

\* Table::print(o, indent)
TablePrint(vs) == Cat(<<Ok(<<"(", "table", " ">>), TableLoop(vs), Ok(<<")">>)>>)

\* a caller constructs a Var and pushes it on Table::vars
PushDefault ==
  /\ lastVar' = [res |-> "ok", ctor |-> "default", arg |-> 0]
  /\ table' = Append(table, VarDefault)

PushNum(n) ==
  IF VarNumAccepts(n)
  THEN /\ lastVar' = [res |-> "ok", ctor |-> "num", arg |-> n]
       /\ table' = Append(table, VarNum(n))
  ELSE /\ lastVar' = [res |-> "assert", ctor |-> "num", arg |-> n]
       /\ table' = table

PushName(name, bits) ==
  IF VarNameAccepts(bits)
  THEN /\ lastVar' = [res |-> "ok", ctor |-> "name", arg |-> bits]
       /\ table' = Append(table, VarName(name, bits))
  ELSE /\ lastVar' = [res |-> "assert", ctor |-> "name", arg |-> bits]
       /\ table' = table

\* a failed assertion aborts the process: nothing runs after it
VarCanRun == lastVar.res # "assert" /\ mpc = "build" /\ Len(table) < MaxVars

MakeDefault == VarCanRun /\ PushDefault /\ UNCHANGED <<mout, mpc>>
MakeNum == \E n \in Nums : VarCanRun /\ PushNum(n) /\ UNCHANGED <<mout, mpc>>
MakeName ==
  \E name \in Names, bits \in NameBits : VarCanRun /\ PushName(name, bits) /\ UNCHANGED <<mout, mpc>>

\* table.print(o, 0) on a fresh stream
PrintTable ==
  /\ lastVar.res # "assert"
  /\ mpc = "build"
  /\ mout' = TablePrint(table)
  /\ mpc' = "printed"
  /\ UNCHANGED <<lastVar, table>>

----------------------------------------------------------------------------
\* BasicType and Literal

BasicTypes == {"none", "i32", "i64", "f32", "f64"}

\* printBasicType(o, type)
PrintBasicType(type) ==
  CASE type = "none" -> Ok(<<"none">>)
    [] type = "i32" -> Ok(<<"i32">>)
    [] type = "i64" -> Ok(<<"i64">>)
    [] type = "f32" -> Ok(<<"f32">>)
    [] type = "f64" -> Ok(<<"f64">>)

\* Literal(): the tag is none, the payload is not written
LiteralDefault == [type |-> "none", val |-> 0]

\* Literal(int32_t), Literal(int64_t), Literal(float), Literal(double); the
\* float and double payloads of the model are whole numbers, which the
\* stream writes like integers
LiteralOf(type, v) == [type |-> type, val |-> v]

Payloads == {-1, 7}

TypedLiterals == {LiteralOf(t, v) : t \in BasicTypes \ {"none"}, v \in Payloads}

\* Literal::print writing the tag of a none literal instead of aborting
LiteralPrintNone(l) ==
  IF l.type = "none" THEN Ok(<<"none">>) ELSE Ok(<<ToString(l.val)>>)

\* Literal::print(o)
LiteralPrint(l) ==
  CASE l.type = "none" -> Abort
    [] l.type = "i32" -> Ok(<<ToString(l.val)>>)
    [] l.type = "i64" -> Ok(<<ToString(l.val)>>)
    [] l.type = "f32" -> Ok(<<ToString(l.val)>>)
    [] l.type = "f64" -> Ok(<<ToString(l.val)>>)

----------------------------------------------------------------------------
\* Operators

UnaryOps == {"Clz", "Ctz", "Popcnt", "Neg", "Abs", "Ceil", "Floor", "Trunc", "Nearest", "Sqrt"}

BinaryOps == {"Add", "Sub", "Mul", "DivS", "DivU", "RemS", "RemU", "And", "Or", "Xor",
              "Shl", "ShrU", "ShrS", "Div", "CopySign", "Min", "Max"}

RelationalOps == {"Eq", "Ne", "LtS", "LtU", "LeS", "LeU", "GtS", "GtU", "GeS", "GeU",
                  "Lt", "Le", "Gt", "Ge"}

ConvertOps == {"ExtendSInt32", "ExtendUInt32", "WrapInt64", "TruncSFloat32", "TruncUFloat32",
               "TruncSFloat64", "TruncUFloat64", "ReinterpretFloat", "ConvertSInt32",
               "ConvertUInt32", "ConvertSInt64", "ConvertUInt64", "PromoteFloat32",
               "DemoteFloat64", "ReinterpretInt"}

HostOps == {"PageSize", "MemorySize", "GrowMemory", "HasFeature"}

\* switch (op) of Unary::print
UnaryOpPrint(op) == IF op = "Neg" THEN Ok(<<"neg">>) ELSE Abort

\* switch (op) of Binary::print
BinaryOpPrint(op) ==
  CASE op = "Add" -> Ok(<<"add">>)
    [] op = "Sub" -> Ok(<<"sub">>)
    [] op = "Mul" -> Ok(<<"mul">>)
    [] op = "DivS" -> Ok(<<"divs">>)
    [] op = "DivU" -> Ok(<<"divu">>)
    [] op = "RemS" -> Ok(<<"rems">>)
    [] op = "RemU" -> Ok(<<"remu">>)
    [] op = "And" -> Ok(<<"and">>)
    [] op = "Or" -> Ok(<<"or">>)
    [] op = "Xor" -> Ok(<<"xor">>)
    [] op = "Shl" -> Ok(<<"shl">>)
    [] op = "ShrU" -> Ok(<<"shru">>)
    [] op = "ShrS" -> Ok(<<"shrs">>)
    [] op = "Div" -> Ok(<<"div">>)
    [] op = "CopySign" -> Ok(<<"copysign">>)
    [] op = "Min" -> Ok(<<"min">>)
    [] op = "Max" -> Ok(<<"max">>)
    [] OTHER -> Abort

\* switch (op) of Compare::print
CompareOpPrint(op) ==
  CASE op = "Eq" -> Ok(<<"eq">>)
    [] op = "Ne" -> Ok(<<"ne">>)
    [] op = "LtS" -> Ok(<<"lts">>)
    [] op = "LtU" -> Ok(<<"ltu">>)
    [] op = "LeS" -> Ok(<<"les">>)
    [] op = "LeU" -> Ok(<<"leu">>)
    [] op = "GtS" -> Ok(<<"gts">>)
    [] op = "GtU" -> Ok(<<"gtu">>)
    [] op = "GeS" -> Ok(<<"ges">>)
    [] op = "GeU" -> Ok(<<"geu">>)
    [] op = "Lt" -> Ok(<<"lt">>)
    [] op = "Le" -> Ok(<<"le">>)
    [] op = "Gt" -> Ok(<<"gt">>)
    [] op = "Ge" -> Ok(<<"ge">>)
    [] OTHER -> Abort

\* switch (op) of Convert::print
ConvertOpPrint(op) ==
  CASE op = "ConvertUInt32" -> Ok(<<"uint32toDouble">>)
    [] op = "ConvertSInt32" -> Ok(<<"sint32toDouble">>)
    [] op = "TruncSFloat64" -> Ok(<<"float64tosint32">>)
    [] OTHER -> Abort

----------------------------------------------------------------------------
\* Expressions.  A node is a record with its class in kind and the members of
\* the class as fields; a null Expression* is Null.

Null == [kind |-> "Null"]
Nop == [kind |-> "Nop"]
Block(var, list) == [kind |-> "Block", var |-> var, list |-> list]
If(condition, ifTrue, ifFalse) ==
  [kind |-> "If", condition |-> condition, ifTrue |-> ifTrue, ifFalse |-> ifFalse]
Loop(outVar, inVar, body) == [kind |-> "Loop", out |-> outVar, in |-> inVar, body |-> body]
Label(var) == [kind |-> "Label", var |-> var]
Break(var, condition, value) ==
  [kind |-> "Break", var |-> var, condition |-> condition, value |-> value]
Switch(var, value) == [kind |-> "Switch", var |-> var, value |-> value]
Call(target, operands) == [kind |-> "Call", target |-> target, operands |-> operands]
CallImport(target, operands) == [kind |-> "CallImport", target |-> target, operands |-> operands]
CallIndirect(target, operands) == [kind |-> "CallIndirect", target |-> target, operands |-> operands]
GetLocal(id) == [kind |-> "GetLocal", id |-> id]
SetLocal(id, value) == [kind |-> "SetLocal", id |-> id, value |-> value]
Load(bytes, signed_, offset, align, ptr) ==
  [kind |-> "Load", bytes |-> bytes, signed_ |-> signed_, offset |-> offset, align |-> align,
   ptr |-> ptr]
Store(bytes, offset, align, ptr, value) ==
  [kind |-> "Store", bytes |-> bytes, offset |-> offset, align |-> align, ptr |-> ptr,
   value |-> value]
Const(value) == [kind |-> "Const", value |-> value]
Unary(op, value) == [kind |-> "Unary", op |-> op, value |-> value]
Binary(op, left, right) == [kind |-> "Binary", op |-> op, left |-> left, right |-> right]
Compare(op, left, right) == [kind |-> "Compare", op |-> op, left |-> left, right |-> right]
Convert(op, value) == [kind |-> "Convert", op |-> op, value |-> value]
Host(op, operands) == [kind |-> "Host", op |-> op, operands |-> operands]

\* o << b for a bool
PrintBool(b) == Ok(<<IF b THEN "1" ELSE "0">>)

\* Label and Host declare no print: Expression::print stays pure virtual in
\* them and there is no text they can produce
NoPrint == [text |-> <<>>, st |-> "noprint"]

RECURSIVE PrintExpr(_, _)

\* printFullLine(o, indent, expression); the function has no return statement
PrintFullLine(e, indent) ==
  MissingReturn(Cat(<<DoIndent(indent), PrintExpr(e, indent), Ok(<<"\n">>)>>))

\* if (p) printFullLine(o, indent, p)
PrintOptLine(e, indent) == IF e.kind = "Null" THEN Ok(<<>>) ELSE PrintFullLine(e, indent)

\* for (auto expression : list) printFullLine(o, indent, expression)
PrintList(list, indent) == Cat([i \in 1..Len(list) |-> PrintFullLine(list[i], indent)])

\* Call::print, which CallImport inherits
CallPrint(e, indent) ==
  Cat(<<Ok(<<"(", "call", " ">>), VarPrint(e.target), IncIndent,
        PrintList(e.operands, indent + 1), DecIndent(indent + 1)>>)

\* the optional Vars of Loop::print
LoopVars(e) ==
  IF VarIs(e.out)
  THEN Cat(<<Ok(<<" ">>), VarPrint(e.out),
             IF VarIs(e.in) THEN Cat(<<Ok(<<" ">>), VarPrint(e.in)>>) ELSE Ok(<<>>)>>)
  ELSE Ok(<<>>)

\* Expression::print(o, indent), dispatched on the class of the node
PrintExpr(e, indent) ==
  CASE e.kind = "Nop" -> Ok(<<"nop">>)
    [] e.kind = "Block" ->
         Cat(<<Ok(<<"(", "block">>),
               IF VarIs(e.var) THEN Cat(<<Ok(<<" ">>), VarPrint(e.var)>>) ELSE Ok(<<>>),
               IncIndent, PrintList(e.list, indent + 1), DecIndent(indent + 1)>>)
    [] e.kind = "If" ->
         Cat(<<Ok(<<"(", "if">>), IncIndent, PrintFullLine(e.condition, indent + 1),
               PrintFullLine(e.ifTrue, indent + 1), PrintOptLine(e.ifFalse, indent + 1),
               DecIndent(indent + 1)>>)
    [] e.kind = "Loop" ->
         Cat(<<Ok(<<"(", "loop">>), LoopVars(e), IncIndent, PrintFullLine(e.body, indent + 1),
               DecIndent(indent + 1)>>)
    [] e.kind = "Label" -> NoPrint
    [] e.kind = "Break" ->
         Cat(<<Ok(<<"(", "break", " ">>), VarPrint(e.var), IncIndent,
               PrintOptLine(e.condition, indent + 1), PrintOptLine(e.value, indent + 1),
               DecIndent(indent + 1)>>)
    [] e.kind = "Switch" ->
         Cat(<<Ok(<<"(", "switch", " ">>), VarPrint(e.var), IncIndent,
               PrintFullLine(e.value, indent + 1), Ok(<<"TODO: cases/default", "\n">>),
               DecIndent(indent + 1)>>)
    [] e.kind = "Call" -> CallPrint(e, indent)
    [] e.kind = "CallImport" -> CallPrint(e, indent)
    [] e.kind = "CallIndirect" ->
         Cat(<<Ok(<<"(", "callindirect", " ">>), IncIndent, PrintFullLine(e.target, indent + 1),
               PrintList(e.operands, indent + 1), DecIndent(indent + 1)>>)
    [] e.kind = "GetLocal" -> Cat(<<Ok(<<"(", "setlocal", " ">>), VarPrint(e.id), Ok(<<")">>)>>)
    [] e.kind = "SetLocal" ->
         Cat(<<Ok(<<"(", "setlocal", " ">>), VarPrint(e.id), IncIndent,
               PrintFullLine(e.value, indent + 1), DecIndent(indent + 1)>>)
    [] e.kind = "Load" ->
         Cat(<<Ok(<<"(", "load", " ", ToString(e.bytes), " ">>), PrintBool(e.signed_),
               Ok(<<" ", ToString(e.offset), " ", ToString(e.align)>>), IncIndent,
               PrintFullLine(e.ptr, indent + 1), DecIndent(indent + 1)>>)
    [] e.kind = "Store" ->
         Cat(<<Ok(<<"(", "load", " ", ToString(e.bytes), " ", " ", ToString(e.offset), " ",
                    ToString(e.align)>>), IncIndent,
               PrintFullLine(e.ptr, indent + 1), PrintFullLine(e.value, indent + 1),
               DecIndent(indent + 1)>>)
    [] e.kind = "Const" ->
         MissingReturn(Cat(<<Ok(<<"(", "literal", " ">>), LiteralPrint(e.value), Ok(<<")">>)>>))
    [] e.kind = "Unary" ->
         Cat(<<Ok(<<"(", "unary", " ">>), UnaryOpPrint(e.op), IncIndent,
               PrintFullLine(e.value, indent + 1), DecIndent(indent + 1)>>)
    [] e.kind = "Binary" ->
         Cat(<<Ok(<<"(", "binary", " ">>), BinaryOpPrint(e.op), IncIndent,
               PrintFullLine(e.left, indent + 1), PrintFullLine(e.right, indent + 1),
               DecIndent(indent + 1)>>)
    [] e.kind = "Compare" ->
         Cat(<<Ok(<<"(", "compare", " ">>), CompareOpPrint(e.op), IncIndent,
               PrintFullLine(e.left, indent + 1), PrintFullLine(e.right, indent + 1),
               DecIndent(indent + 1)>>)
    [] e.kind = "Convert" ->
         Cat(<<Ok(<<"(", "convert", " ">>), ConvertOpPrint(e.op), IncIndent,
               PrintFullLine(e.value, indent + 1), DecIndent(indent + 1)>>)
    [] e.kind = "Host" -> NoPrint

----------------------------------------------------------------------------
\* Building a tree.  The header has no constructors for the nodes: a caller
\* allocates a node (Arena::alloc value-initialises it) and assigns its
\* public members.  The trees below have every required child set.

RECURSIVE Depth(_)
RECURSIVE MaxDepthOf(_, _)

\* the children of a node that are not null
Children(e) ==
  LET opt(c) == IF c.kind = "Null" THEN <<>> ELSE <<c>>
  IN CASE e.kind = "Block" -> e.list
       [] e.kind = "If" -> <<e.condition, e.ifTrue>> \o opt(e.ifFalse)
       [] e.kind = "Loop" -> <<e.body>>
       [] e.kind = "Break" -> opt(e.condition) \o opt(e.value)
       [] e.kind = "Switch" -> <<e.value>>
       [] e.kind \in {"Call", "CallImport", "Host"} -> e.operands
       [] e.kind = "CallIndirect" -> <<e.target>> \o e.operands
       [] e.kind \in {"SetLocal", "Unary", "Convert"} -> <<e.value>>
       [] e.kind = "Load" -> <<e.ptr>>
       [] e.kind = "Store" -> <<e.ptr, e.value>>
       [] e.kind \in {"Binary", "Compare"} -> <<e.left, e.right>>
       [] OTHER -> <<>>

MaxDepthOf(list, i) ==
  IF i > Len(list) THEN 0
  ELSE LET d == Depth(list[i])
           r == MaxDepthOf(list, i + 1)
       IN IF d > r THEN d ELSE r

\* height of the tree: 0 for a node without children
Depth(e) == IF Children(e) = <<>> THEN 0 ELSE 1 + MaxDepthOf(Children(e), 1)

\* Vars given to the members of a node
NodeVars == {VarDefault, VarNum(1)}

\* the nodes without children, as allocated and after their Var member was assigned
Atoms ==
  {Nop, Const(LiteralDefault)}
    \cup {GetLocal(v) : v \in NodeVars \cup {VarName("a", 1000001)}}
    \cup {Label(v) : v \in NodeVars}
    \cup {Host(op, <<>>) : op \in HostOps}
    \cup {Block(v, <<>>) : v \in NodeVars}
    \cup {Break(v, Null, Null) : v \in NodeVars}
    \cup {Call(v, <<>>) : v \in NodeVars}
    \cup {CallImport(v, <<>>) : v \in NodeVars}

\* every way the model makes c the child of a new node
FullWrappers(c) ==
  {Block(v, l) : v \in NodeVars, l \in {<<c>>, <<c, Nop>>}}
    \cup {If(c, Nop, Null), If(Nop, c, Nop)}
    \cup {Loop(VarDefault, VarDefault, c), Loop(VarNum(1), VarDefault, c),
          Loop(VarNum(1), VarNum(2), c), Loop(VarDefault, VarNum(2), c)}
    \cup {Break(v, c, Null) : v \in NodeVars}
    \cup {Break(v, Null, c) : v \in NodeVars}
    \cup {Break(v, Nop, c) : v \in NodeVars}
    \cup {Switch(v, c) : v \in NodeVars}
    \cup {Call(v, <<c>>) : v \in NodeVars}
    \cup {CallImport(v, <<c>>) : v \in NodeVars}
    \cup {CallIndirect(c, <<>>), CallIndirect(Nop, <<c>>)}
    \cup {SetLocal(v, c) : v \in NodeVars}
    \cup {Load(4, TRUE, 0, 4, c), Load(1, FALSE, 8, 1, c), Store(4, 0, 4, c, Nop)}
    \cup {Unary(op, c) : op \in UnaryOps}
    \cup {Binary(op, c, Nop) : op \in BinaryOps}
    \cup {Compare(op, c, Nop) : op \in RelationalOps}
    \cup {Convert(op, c) : op \in ConvertOps}

\* the parents the model gives a node that has children itself
NestWrappers(c) ==
  {Block(VarDefault, <<c, Nop>>), If(Nop, c, Null), Loop(VarNum(1), VarNum(2), c),
   Switch(VarNum(1), c), Call(VarNum(1), <<c>>), Unary("Neg", c), Binary("Add", Nop, c)}

Wrappers(c) == IF Depth(c) = 0 THEN FullWrappers(c) ELSE NestWrappers(c)

\* Const::set(value_)
ConstSet ==
  /\ pc = "build"
  /\ root.kind = "Const"
  /\ \E l \in TypedLiterals : root' = [root EXCEPT !.value = l]
  /\ UNCHANGED <<out, pc>>

\* a new node is allocated and root becomes its child
Wrap ==
  /\ pc = "build"
  /\ Depth(root) < MaxDepth
  /\ \E n \in Wrappers(root) : root' = n
  /\ UNCHANGED <<out, pc>>

\* root->print(o, 0) on a fresh stream
PrintRoot ==
  /\ pc = "build"
  /\ out' = PrintExpr(root, 0)
  /\ pc' = "printed"
  /\ UNCHANGED root

----------------------------------------------------------------------------
\* FunctionType: [name, result, params]

RECURSIVE ParamsEqual(_, _, _)
\* for (i = 0; i < params.size(); i++) if (params[i] != b.params[i]) return false; return true
ParamsEqual(a, b, i) ==
  IF i > Len(a.params) THEN TRUE
  ELSE IF a.params[i] # b.params[i] THEN FALSE
  ELSE ParamsEqual(a, b, i + 1)

\* operator== without the comparison of the names
FunctionTypeEqShape(a, b) ==
  IF a.result # b.result THEN FALSE
  ELSE IF Len(a.params) # Len(b.params) THEN FALSE
  ELSE ParamsEqual(a, b, 1)

\* FunctionType::operator==
FunctionTypeEq(a, b) ==
  IF a.name # b.name THEN FALSE
  ELSE IF a.result # b.result THEN FALSE
  ELSE IF Len(a.params) # Len(b.params) THEN FALSE
  ELSE ParamsEqual(a, b, 1)

\* FunctionType::operator!=
FunctionTypeNe(a, b) == ~FunctionTypeEq(a, b)

\* the types the parameters and results of the compared signatures are drawn from
SigTypes == {"none", "i32", "f64"}
SigNames == {"a", "b"}

RECURSIVE SeqsUpTo(_, _)
\* the sequences over S of length at most n
SeqsUpTo(S, n) ==
  IF n = 0 THEN {<<>>}
  ELSE LET shorter == SeqsUpTo(S, n - 1)
       IN shorter \cup {Append(q, x) : q \in shorter, x \in S}

FunctionTypes ==
  {[name |-> n, result |-> r, params |-> ps] :
     n \in SigNames, r \in SigTypes, ps \in SeqsUpTo(SigTypes, MaxParams)}

\* a == b, b == a, a == a and a != b are evaluated
CompareTypes ==
  /\ ~cmp.done
  /\ cmp' = [done |-> TRUE, ab |-> FunctionTypeEq(fa, fb), ba |-> FunctionTypeEq(fb, fa),
             aa |-> FunctionTypeEq(fa, fa), ne |-> FunctionTypeNe(fa, fb)]
  /\ UNCHANGED <<fa, fb>>

\* for (auto& param : params) { o << "(param "; printBasicType(o, param) << ") "; }
TypeParams(ps) ==
  Cat([i \in 1..Len(ps) |-> Cat(<<Ok(<<"(", "param", " ">>), PrintBasicType(ps[i]), Ok(<<")", " ">>)>>)])

\* FunctionType::print(o, indent)
FunctionTypePrint(t, indent) ==
  Cat(<<Ok(<<"(", "type", " ", t.name>>), IncIndent, DoIndent(indent + 1), TypeParams(t.params),
        Ok(<<"(", "result", " ">>), PrintBasicType(t.result), Ok(<<")", "\n">>),
        DecIndent(indent + 1)>>)

----------------------------------------------------------------------------
\* Function, Import, Export, Module

\* for (auto& param : params) of printParamsAndResult
NamedParams(ps) ==
  Cat([i \in 1..Len(ps) |->
         Cat(<<Ok(<<"(", "param", " ", ps[i].name, " ">>), PrintBasicType(ps[i].type),
               Ok(<<")", " ">>)>>)])

\* printParamsAndResult(o, indent, result, params); the function has no return statement
PrintParamsAndResult(result, params) ==
  MissingReturn(Cat(<<NamedParams(params), Ok(<<"(", "result", " ">>), PrintBasicType(result),
                      Ok(<<")">>)>>))

\* for (auto& local : locals) of Function::print
Locals(ls, indent) ==
  Cat([i \in 1..Len(ls) |->
         Cat(<<DoIndent(indent), Ok(<<"(", "local", " ", ls[i].name, " ">>),
               PrintBasicType(ls[i].type), Ok(<<")", "\n">>)>>)])

\* Function::print(o, indent)
FunctionPrint(f, indent) ==
  Cat(<<Ok(<<"(", "func", " ", f.name, " ">>), PrintParamsAndResult(f.result, f.params),
        IncIndent, Locals(f.locals, indent + 1), PrintFullLine(f.body, indent + 1),
        DecIndent(indent + 1)>>)

\* Import::print(o, indent)
ImportPrint(m, indent) ==
  Cat(<<Ok(<<"(", "import", " ", m.name, " ", "\"", m.module, "\"", " ", "\"", m.base, "\"", " ">>),
        FunctionTypePrint(m.type, indent), Ok(<<")">>)>>)

\* Export::print(o, indent)
ExportPrint(x, indent) ==
  Cat(<<Ok(<<"(", "export", " ", "\"", x.name, "\"", " ">>), VarPrint(x.value), Ok(<<")">>)>>)

\* the order of Names, which std::map<Name, Import> keeps its keys in
NameRank(n) == CASE n = "a" -> 1 [] n = "b" -> 2 [] n = "c" -> 3
NameLess(a, b) == NameRank(a) < NameRank(b)

RECURSIVE MapInsertAt(_, _, _)
MapInsertAt(m, e, i) ==
  IF i > Len(m) THEN Append(m, e)
  ELSE IF m[i].name = e.name THEN [m EXCEPT ![i] = e]
  ELSE IF NameLess(e.name, m[i].name) THEN SubSeq(m, 1, i - 1) \o <<e>> \o SubSeq(m, i, Len(m))
  ELSE MapInsertAt(m, e, i + 1)

\* imports[e.name] = e on std::map<Name, Import>; the map is the sequence of
\* its values in iteration order
MapInsert(m, e) == MapInsertAt(m, e, 1)

\* for (auto& curr : functionTypes) of Module::print
PrintTypes(ts, indent) ==
  Cat([i \in 1..Len(ts) |-> Cat(<<DoIndent(indent), FunctionTypePrint(ts[i], indent), Ok(<<"\n">>)>>)])

\* for (auto& curr : imports) of Module::print
PrintImports(ms, indent) ==
  Cat([i \in 1..Len(ms) |-> Cat(<<DoIndent(indent), ImportPrint(ms[i], indent), Ok(<<"\n">>)>>)])

\* for (auto& curr : exports) of Module::print
PrintExports(xs, indent) ==
  Cat([i \in 1..Len(xs) |-> Cat(<<DoIndent(indent), ExportPrint(xs[i], indent), Ok(<<"\n">>)>>)])

\* for (auto& curr : functions) of Module::print
PrintFunctions(fs, indent) ==
  Cat([i \in 1..Len(fs) |-> Cat(<<DoIndent(indent), FunctionPrint(fs[i], indent), Ok(<<"\n">>)>>)])

\* Module::print with the loops over exports and imports exchanged
ModulePrintExportsFirst(ts, ms, xs, tb, fs) ==
  MissingReturn(Cat(<<Ok(<<"(", "module">>), IncIndent, PrintTypes(ts, 1), PrintExports(xs, 1),
                      PrintImports(ms, 1), DoIndent(1), TablePrint(tb), Ok(<<"\n">>),
                      PrintFunctions(fs, 1), DecIndent(1), Ok(<<"\n">>)>>))

\* Module::print(o); indent is 0 on entry; the function has no return statement
ModulePrint(ts, ms, xs, tb, fs) ==
  MissingReturn(Cat(<<Ok(<<"(", "module">>), IncIndent, PrintTypes(ts, 1), PrintImports(ms, 1),
                      PrintExports(xs, 1), DoIndent(1), TablePrint(tb), Ok(<<"\n">>),
                      PrintFunctions(fs, 1), DecIndent(1), Ok(<<"\n">>)>>))

\* the declarations the model adds to a Module
ModTypes ==
  {[name |-> "a", result |-> "i32", params |-> <<"i32", "i32">>],
   [name |-> "b", result |-> "none", params |-> <<>>]}
ModImports ==
  {[name |-> n, module |-> "env", base |-> "print",
    type |-> [name |-> "b", result |-> "none", params |-> <<"i32">>]] : n \in Names}
ModExports ==
  {[name |-> "a", value |-> VarNum(1)], [name |-> "b", value |-> VarName("b", 2000000000)]}
ModTableVars == {VarNum(1)}
ModFunctions ==
  {[name |-> "a", result |-> "i32",
    params |-> <<[name |-> "x", type |-> "i32"], [name |-> "y", type |-> "i32"]>>,
    locals |-> <<>>, body |-> Binary("Add", GetLocal(VarNum(1)), GetLocal(VarNum(2)))],
   [name |-> "b", result |-> "none", params |-> <<>>,
    locals |-> <<[name |-> "c", type |-> "f64"]>>, body |-> Nop]}

\* the number of declarations in the module
Declared == Len(functionTypes) + Len(imports) + Len(exports) + Len(table) + Len(functions)

\* the members of Module are protected: a derived class fills them through
\* the containers' own operations
AddFunctionType ==
  /\ mpc = "build" /\ Declared < MaxDecls
  /\ \E t \in ModTypes : functionTypes' = Append(functionTypes, t)
  /\ UNCHANGED <<imports, exports, table, functions, importLog, mout, mpc>>

AddImport ==
  /\ mpc = "build" /\ Declared < MaxDecls
  /\ \E m \in ModImports :
       /\ \A i \in 1..Len(imports) : imports[i].name # m.name
       /\ imports' = MapInsert(imports, m)
       /\ importLog' = Append(importLog, m.name)
  /\ UNCHANGED <<functionTypes, exports, table, functions, mout, mpc>>

AddExport ==
  /\ mpc = "build" /\ Declared < MaxDecls
  /\ \E x \in ModExports : exports' = Append(exports, x)
  /\ UNCHANGED <<functionTypes, imports, table, functions, importLog, mout, mpc>>

AddTableVar ==
  /\ mpc = "build" /\ Declared < MaxDecls
  /\ \E v \in ModTableVars : table' = Append(table, v)
  /\ UNCHANGED <<functionTypes, imports, exports, functions, importLog, mout, mpc>>

AddFunction ==
  /\ mpc = "build" /\ Declared < MaxDecls
  /\ \E f \in ModFunctions : functions' = Append(functions, f)
  /\ UNCHANGED <<functionTypes, imports, exports, table, importLog, mout, mpc>>

\* module.print(o) on a fresh stream
PrintModule ==
  /\ mpc = "build"
  /\ mout' = ModulePrint(functionTypes, imports, exports, table, functions)
  /\ mpc' = "printed"
  /\ UNCHANGED <<functionTypes, imports, exports, table, functions, importLog>>

----------------------------------------------------------------------------
\* Specifications

VarIdle == lastVar = [res |-> "none", ctor |-> "none", arg |-> 0]
ArenaIdle ==
  /\ chunks = <<>> /\ index = 0 /\ objs = <<>> /\ nextChunk = 1 /\ allocs = 0
  /\ lastAlloc = [res |-> "none", size |-> 0]
NoCmp == [done |-> FALSE, ab |-> FALSE, ba |-> FALSE, aa |-> FALSE, ne |-> FALSE]
FtIdle == fa = Null /\ fb = Null /\ cmp = NoCmp
PrintIdle == root = Null /\ out = Ok(<<>>) /\ pc = "build"
ModuleIdle ==
  /\ functionTypes = <<>> /\ imports = <<>> /\ exports = <<>> /\ table = <<>>
  /\ functions = <<>> /\ importLog = <<>> /\ mout = Ok(<<>>) /\ mpc = "build"

\* the arena
InitArena == ArenaInit /\ VarIdle /\ FtIdle /\ traps = FALSE /\ PrintIdle /\ ModuleIdle
NextArena ==
  \/ Alloc /\ UNCHANGED <<lastVar, ftVars, traps, printVars, moduleVars>>
  \/ AllocFail /\ UNCHANGED <<lastVar, ftVars, traps, printVars, moduleVars>>
  \/ ArenaClear /\ UNCHANGED <<lastVar, ftVars, traps, printVars, moduleVars>>
SpecArena == InitArena /\ [][NextArena]_vars

\* Vars are constructed, kept in a Table and printed
InitVar == ArenaIdle /\ VarIdle /\ FtIdle /\ traps = FALSE /\ PrintIdle /\ ModuleIdle
varRest == <<arenaVars, ftVars, traps, printVars, functionTypes, imports, exports, functions, importLog>>
NextVar ==
  \/ MakeDefault /\ UNCHANGED varRest
  \/ MakeNum /\ UNCHANGED varRest
  \/ MakeName /\ UNCHANGED varRest
  \/ PrintTable /\ UNCHANGED varRest
SpecVar == InitVar /\ [][NextVar]_vars

\* two FunctionTypes are compared
InitFt ==
  /\ ArenaIdle /\ VarIdle /\ traps = FALSE /\ PrintIdle /\ ModuleIdle
  /\ fa \in FunctionTypes /\ fb \in FunctionTypes /\ cmp = NoCmp
NextFt == CompareTypes /\ UNCHANGED <<arenaVars, lastVar, traps, printVars, moduleVars>>
SpecFt == InitFt /\ [][NextFt]_vars

\* an expression tree is built and printed
InitPrint ==
  /\ ArenaIdle /\ VarIdle /\ FtIdle /\ ModuleIdle
  /\ traps \in BOOLEAN
  /\ root \in Atoms /\ out = Ok(<<>>) /\ pc = "build"
NextPrint ==
  \/ ConstSet /\ UNCHANGED <<arenaVars, lastVar, ftVars, traps, moduleVars>>
  \/ Wrap /\ UNCHANGED <<arenaVars, lastVar, ftVars, traps, moduleVars>>
  \/ PrintRoot /\ UNCHANGED <<arenaVars, lastVar, ftVars, traps, moduleVars>>
SpecPrint == InitPrint /\ [][NextPrint]_vars

\* a Module is filled and printed
InitModule == ArenaIdle /\ VarIdle /\ FtIdle /\ PrintIdle /\ ModuleIdle /\ traps \in BOOLEAN
modRest == <<arenaVars, lastVar, ftVars, traps, printVars>>
NextModule ==
  \/ AddFunctionType /\ UNCHANGED modRest
  \/ AddImport /\ UNCHANGED modRest
  \/ AddExport /\ UNCHANGED modRest
  \/ AddTableVar /\ UNCHANGED modRest
  \/ AddFunction /\ UNCHANGED modRest
  \/ PrintModule /\ UNCHANGED modRest
SpecModule == InitModule /\ [][NextModule]_vars

----------------------------------------------------------------------------
\* Reading a text back

\* "(" minus ")" among the first k lexemes
Opens(text, k) ==
  Cardinality({i \in 1..k : text[i] = "("}) - Cardinality({i \in 1..k : text[i] = ")"})

\* every ")" closes an earlier "(" and no "(" stays open
Balanced(text) ==
  /\ \A k \in 1..Len(text) : Opens(text, k) >= 0
  /\ Opens(text, Len(text)) = 0

\* the positions at which a line begins
LineStarts(text) == {p \in 1..Len(text) : p = 1 \/ text[p - 1] = "\n"}

\* the first position at or after p that does not hold an indentation unit
AfterIndent(text, p) ==
  CHOOSE q \in p..(Len(text) + 1) :
    /\ \A r \in p..(q - 1) : text[r] = "  "
    /\ q = Len(text) + 1 \/ text[q] # "  "

\* the indentation of the line that begins at p
IndentAt(text, p) == AfterIndent(text, p) - p

\* the beginning of the line position k is on
LineOf(text, k) == CHOOSE p \in LineStarts(text) : p <= k /\ \A q \in LineStarts(text) : q <= k => q <= p

\* the "(" that the ")" at position k closes
MatchOpen(text, k) ==
  CHOOSE j \in 1..(k - 1) :
    /\ text[j] = "(" /\ Opens(text, j - 1) = Opens(text, k)
    /\ \A i \in (j + 1)..(k - 1) : ~(text[i] = "(" /\ Opens(text, i - 1) = Opens(text, k))

\* a ")" that begins a line (after its indentation) is indented like the line
\* its "(" is on
ClosesAtOpenIndent(text) ==
  \A p \in LineStarts(text) :
    LET k == AfterIndent(text, p)
    IN (k <= Len(text) /\ text[k] = ")") =>
         IndentAt(text, p) = IndentAt(text, LineOf(text, MatchOpen(text, k)))

\* the indentation of every line is the number of forms open around it
LinesAtDepth(text) ==
  \A p \in LineStarts(text) :
    LET k == AfterIndent(text, p)
    IN k <= Len(text) =>
         IndentAt(text, p) = Opens(text, p - 1) - (IF text[k] = ")" THEN 1 ELSE 0)

----------------------------------------------------------------------------
\* C1: the text print produces for a tree of printable nodes has balanced
\* parentheses, every ")" that decIndent writes is indented like the line of
\* its opening tag, and the indentation of every line is its nesting depth.
C1_Claim ==
  (pc = "printed" /\ out.st = "ok") =>
    /\ Balanced(out.text)
    /\ ClosesAtOpenIndent(out.text)
    /\ LinesAtDepth(out.text)

\* a node whose class declares print and whose Literal, if it has one, was set
Printable(e) ==
  /\ e.kind \notin {"Label", "Host"}
  /\ e.kind = "Const" => e.value.type # "none"

\* C2: printing a freshly constructed minimal instance of an Expression
\* variant, with any operator of its enumeration, completes and produces
\* balanced delimiters and lines indented by their nesting depth.  Stated for
\* a build where flowing off the end of a function returns, and for the
\* instances whose class declares print (Label and Host declare none) and
\* whose children are printable atoms.
C2_Claim ==
  (/\ pc = "printed" /\ ~traps /\ Depth(root) <= 1 /\ Printable(root)
   /\ \A i \in 1..Len(Children(root)) : Printable(Children(root)[i])) =>
    /\ out.st = "ok"
    /\ Balanced(out.text)
    /\ LinesAtDepth(out.text)

\* the Var a node must carry, or VarNum(1) for a node that needs none
RequiredVar(e) ==
  CASE e.kind \in {"Break", "Switch"} -> e.var
    [] e.kind \in {"Call", "CallImport"} -> e.target
    [] e.kind \in {"GetLocal", "SetLocal"} -> e.id
    [] OTHER -> VarNum(1)

\* C10: printing a node whose required Identifier is unset terminates
\* abnormally; the printer never completes after writing text for it.
C10_Claim == (pc = "printed" /\ RequiredVar(root).by = "default") => out.st # "ok"

\* C9, as stated: no Literal of type none exists in a running program (its
\* construction is fatal).
C9_Original == root.kind = "Const" => root.value.type # "none"

\* C9, amended: a Literal of type none can be constructed (Literal() builds
\* one, and a fresh Const holds it); printing a Const that holds it aborts
\* after "(literal " with no text for the value, and a Const holding an i32,
\* i64, f32 or f64 Literal prints "(literal <value>)" without aborting.
C9_Amended ==
  (pc = "printed" /\ root.kind = "Const") =>
    IF root.value.type = "none"
    THEN out = [text |-> <<"(", "literal", " ">>, st |-> "abort"]
    ELSE /\ out.st # "abort"
         /\ out.text = <<"(", "literal", " ", ToString(root.value.val), ")">>

C9_Witness == pc = "printed" /\ root = Const(LiteralDefault) /\ out.st = "abort"

----------------------------------------------------------------------------
\* the ranges of objs[i] and objs[j] do not meet
Disjoint(i, j) ==
  \/ objs[i].chunk # objs[j].chunk
  \/ objs[i].off + objs[i].size <= objs[j].off
  \/ objs[j].off + objs[j].size <= objs[i].off

C4_Inv ==
  /\ \A i \in 1..Len(objs) :
       /\ \E c \in 1..Len(chunks) : chunks[c] = objs[i].chunk
       /\ objs[i].off >= 0
       /\ objs[i].off + objs[i].size <= CHUNK
       /\ objs[i].size % 8 = 0
  /\ \A i, j \in 1..Len(objs) : i # j => Disjoint(i, j)
  /\ \A c, d \in 1..Len(chunks) : c # d => chunks[c] # chunks[d]
  /\ (lastAlloc.res = "ok" /\ objs # <<>>) =>
       objs[Len(objs)].size \in lastAlloc.size..(lastAlloc.size + 7)

C4_Step ==
  (lastAlloc'.res = "ok" /\ allocs' = allocs + 1) =>
    /\ Len(objs') = Len(objs) + 1
    /\ SubSeq(objs', 1, Len(objs)) = objs
    /\ SubSeq(chunks', 1, Len(chunks)) = chunks
    /\ Len(chunks') > Len(chunks) =>
         /\ Len(chunks') = Len(chunks) + 1
         /\ objs'[Len(objs')].off = 0
         /\ objs'[Len(objs')].chunk = chunks'[Len(chunks')]
    /\ (chunks # <<>> /\ index + objs'[Len(objs')].size > CHUNK) => Len(chunks') = Len(chunks) + 1

\* C4: every object returned since the last clear lies inside one live chunk
\* of CHUNK bytes and meets no other such object; an alloc that the current
\* chunk cannot hold appends a chunk and places the object at offset 0 of it;
\* an alloc leaves the earlier chunks and objects as they were.
C4_Theorem == []C4_Inv /\ [][C4_Step]_vars

\* objects in two chunks, after a clear
C4_Witness == Len(chunks) = 2 /\ Len(objs) >= 2 /\ nextChunk > 3 /\ objs[Len(objs)].off = 0

\* C5, as stated: alloc rejects a type larger than CHUNK bytes and accepts
\* every type whose size rounded up to 8 is not larger than CHUNK.
C5_Original == lastAlloc.res \in {"ok", "assert"} => (lastAlloc.res = "assert" <=> lastAlloc.size > CHUNK)

\* C5, amended: alloc rejects exactly the types whose size rounded up to 8
\* is CHUNK or more (sizeof(T) > CHUNK - 8), and a rejected alloc appends no
\* chunk and leaves index, the chunks and the objects as they were.
C5_Amended ==
  /\ [](lastAlloc.res \in {"ok", "assert"} => (lastAlloc.res = "assert" <=> lastAlloc.size > CHUNK - 8))
  /\ [][lastAlloc'.res = "assert" => UNCHANGED <<chunks, index, objs, nextChunk>>]_vars

\* a type of CHUNK bytes is rejected with objects allocated
C5_Witness == lastAlloc = [res |-> "assert", size |-> CHUNK] /\ objs # <<>>

----------------------------------------------------------------------------
\* the class a Var falls in by its storage value
StorageClass(v) ==
  CASE v.num = 0 -> "default"
    [] v.num > 0 /\ v.num < MAX_NUM -> "num"
    [] v.num > MAX_NUM -> "name"
    [] OTHER -> "neither"

\* what Table::print writes for Vars of the classes their constructors gave them
ExpectedTable ==
  <<"(", "table", " ">>
    \o [k \in 1..(2 * Len(table)) |->
          IF k % 2 = 0 THEN " "
          ELSE LET v == table[(k + 1) \div 2]
               IN IF v.by = "name" THEN v.str ELSE ToString(v.num)]
    \o <<")">>

\* C6, as stated for names: Var(Name) is accepted exactly when the storage
\* value is at or above MAX_NUM.
C6_Original == lastVar.ctor = "name" => (lastVar.res = "ok" <=> lastVar.arg >= MAX_NUM)

\* C6, amended: a constructed Var is unset (value 0, Var() only), numeric
\* (1..MAX_NUM-1, Var(unsigned) only) or named (value above MAX_NUM,
\* Var(Name) only); Var(unsigned) rejects every number outside 1..MAX_NUM-1;
\* Var(Name) accepts exactly the names whose storage value is strictly above
\* MAX_NUM and rejects the value MAX_NUM itself; is() and print observe the
\* class the constructor gave.
C6_Amended ==
  /\ \A i \in 1..Len(table) :
       /\ StorageClass(table[i]) = table[i].by
       /\ VarIs(table[i]) <=> table[i].by # "default"
  /\ lastVar.ctor = "num" => (lastVar.res = "ok" <=> (lastVar.arg >= 1 /\ lastVar.arg <= MAX_NUM - 1))
  /\ lastVar.ctor = "name" => (lastVar.res = "ok" <=> lastVar.arg > MAX_NUM)
  /\ lastVar.ctor = "default" => lastVar.res = "ok"
  /\ mpc = "printed" => mout = Ok(ExpectedTable)

\* a name whose storage value is MAX_NUM was rejected after a named Var was built
C6_Witness ==
  /\ lastVar = [res |-> "assert", ctor |-> "name", arg |-> MAX_NUM]
  /\ \E i \in 1..Len(table) : table[i].by = "name"

\* C7: is() is false for the Var built by Var() and true for every Var that
\* Var(unsigned) or Var(Name) accepted.
C7_Theorem ==
  \A i \in 1..Len(table) :
    /\ table[i].by = "default" => ~VarIs(table[i])
    /\ table[i].by \in {"num", "name"} => VarIs(table[i])

\* a Table holding an unset, a numeric and a named Var
C7_Witness ==
  /\ \E i \in 1..Len(table) : table[i].by = "default"
  /\ \E i \in 1..Len(table) : table[i].by = "num" /\ table[i].num = 1
  /\ \E i \in 1..Len(table) : table[i].by = "name"

----------------------------------------------------------------------------
\* C8: operator== is reflexive and symmetric, is true exactly for two
\* signatures with the same name, the same result and the same parameter
\* types in the same order and number, and operator!= is its negation.
C8_Theorem ==
  cmp.done =>
    /\ cmp.aa
    /\ cmp.ab = cmp.ba
    /\ cmp.ab <=> (/\ fa.name = fb.name
                   /\ fa.result = fb.result
                   /\ Len(fa.params) = Len(fb.params)
                   /\ \A i \in 1..Len(fa.params) : fa.params[i] = fb.params[i])
    /\ cmp.ne = ~cmp.ab

\* two signatures that differ in the order of their parameters only were compared
C8_Witness ==
  /\ cmp.done /\ ~cmp.ab
  /\ fa.name = fb.name /\ fa.result = fb.result
  /\ fa.params = <<"i32", "f64">> /\ fb.params = <<"f64", "i32">>

----------------------------------------------------------------------------
\* the positions of the "(" that open a declaration of the module
ItemPositions(text) == {j \in 1..Len(text) : text[j] = "(" /\ Opens(text, j - 1) = 1}

\* the declaration opened at position j: its tag and its name
ItemAt(text, j) ==
  LET tag == text[j + 1]
  IN IF tag = "table" THEN <<tag, "">>
     ELSE IF tag = "export" THEN <<tag, text[j + 4]>>
     ELSE <<tag, text[j + 3]>>

\* the declarations of the module in the order the text has them
Items(text) ==
  LET P == ItemPositions(text)
  IN [k \in 1..Cardinality(P) |->
        ItemAt(text, CHOOSE j \in P : Cardinality({i \in P : i <= j}) = k)]

Tagged(tag, decls) == [i \in 1..Len(decls) |-> <<tag, decls[i].name>>]

UpToTable ==
  Tagged("type", functionTypes) \o Tagged("import", imports) \o Tagged("export", exports)
    \o <<(<<"table", "">>)>>

ExpectedItems == UpToTable \o Tagged("func", functions)

IsPrefix(a, b) == Len(a) <= Len(b) /\ SubSeq(b, 1, Len(a)) = a

\* C3: Module::print writes the function types in declaration order, then
\* the imports in the order of their names, then the exports in declaration
\* order, then one table, then the functions in declaration order, whatever
\* the order the declarations were added in; nothing of a later section is
\* ever written before something of an earlier one.  Everything up to the
\* table is always written; the functions are all written when print returns.
C3_Theorem ==
  mpc = "printed" =>
    /\ \A i, j \in 1..Len(imports) : i < j => NameRank(imports[i].name) < NameRank(imports[j].name)
    /\ IsPrefix(Items(mout.text), ExpectedItems)
    /\ IsPrefix(UpToTable, Items(mout.text))
    /\ mout.st = "ok" => Items(mout.text) = ExpectedItems
    /\ ~traps => mout.st = "ok"

\* a module with every section filled, the import "b" added before the
\* import "a", printed to the end
C3_Witness ==
  /\ mpc = "printed" /\ mout.st = "ok"
  /\ functionTypes # <<>> /\ exports # <<>> /\ functions # <<>> /\ table # <<>>
  /\ importLog = <<"b", "a">>

====
